---- MODULE Spec2Model ----
(***************************************************************************)
(* Model of smartthings_exporter.py: the SmartThingsMetric handle, the     *)
(* Worker's registry (metrics_collector), the poll loop and the expiration *)
(* sweep.  Time is the value time.time() returns, in whole seconds.        *)
(***************************************************************************)
EXTENDS Integers, Sequences, FiniteSets, TLC

VARIABLES
    device_metrics,     \* Worker.device_metrics: the configured field keys, in order
    collecting_interval_seconds,  \* Worker.collecting_interval_seconds
    expiration_threshold,         \* Worker.expiration_threshold
    metrics_collector,  \* Worker.metrics_collector: list of SmartThingsMetric
    running,            \* Worker.running
    pc,                 \* position of the Worker.loop coroutine
    now,                \* time.time()
    refreshed,          \* outcome of this cycle's device.status.refresh()
    calls,              \* calls made so far in the current cycle (observation only)
    last_set,           \* per key: the last set() values that differed (observation only)
    last_clear,         \* per key: time of the last clear() since a publish (observation only)
    environ,            \* os.environ: the required settings present, the values read
    main_pc,            \* position of main(): "start", "run" (in asyncio.run), "exit"
    exit_status,        \* <<>> while the process lives, <<status>> once it has exited
    worker,             \* the Worker has been constructed (line 136)
    server,             \* start_http_server has been called (line 138)
    session             \* the aiohttp.ClientSession of line 55: "none", "open", "closed"

config == <<device_metrics, collecting_interval_seconds, expiration_threshold>>

history == <<last_set, last_clear>>

process == <<environ, main_pc, exit_status, worker, server, session>>

vars == <<config, metrics_collector, running, pc, now, refreshed, calls, history, process>>

----------------------------------------------------------------------------
(* Bounds of the exploration *)

MaxPeriods == 2     \* expiration periods (threshold plus one interval) explored
MaxNum == 2         \* numbers a field may report: 1..MaxNum

(* Worker.__init__ defaults, also the defaults main() reads *)
DefaultCollectingInterval == 30
DefaultExpirationThreshold == 300

(* a short threshold, as EXPIRATION_THRESHOLD may set it *)
ShortExpirationThreshold == 30

----------------------------------------------------------------------------
(* Values of device.status.values.get(payload_key).  A value is a record   *)
(* [kind, n]: None, a number, a string holding a number, or another string *)

NoneValue == [kind |-> "none", n |-> 0]
Num(n) == [kind |-> "num", n |-> n]
NumStr(n) == [kind |-> "numstr", n |-> n]
OtherStr == [kind |-> "str", n |-> 0]

StatusValues ==
    {NoneValue, OtherStr, NumStr(1)} \cup {Num(n) : n \in 1..MaxNum}

(* field keys the device may report; "battery" is reported, never configured *)
StatusKeys == {"switch", "level", "battery"}

(* keys for which Gauge(name, ...) accepts the name "smartthings_<key>":    *)
(* prometheus_client rejects names outside [a-zA-Z_:][a-zA-Z0-9_:]*         *)
WellFormedKeys == {"switch", "level", "battery"}

(* the arguments main() passes to Worker(...) *)
Configuration(dm, interval, threshold) ==
    [device_metrics |-> dm, collecting_interval_seconds |-> interval,
     expiration_threshold |-> threshold]

Configurations ==
    { Configuration(<<"switch">>, DefaultCollectingInterval, DefaultExpirationThreshold),
      Configuration(<<"switch", "level">>, DefaultCollectingInterval,
                    ShortExpirationThreshold),
      Configuration(<<"switch", "bad.key", "level">>, DefaultCollectingInterval,
                    ShortExpirationThreshold) }

(* the settings load_env_variable is called for without a default *)
RequiredSettings == <<"DEVICE_ID", "DEVICE_METRICS", "SMARTTHINGS_TOKEN">>

(* the environments main() may start in: which required settings are set,   *)
(* and the values DEVICE_METRICS, COLLECTING_INTERVAL, EXPIRATION_THRESHOLD *)
(* yield                                                                    *)
Environments ==
    [ present : SUBSET { RequiredSettings[i] : i \in 1..Len(RequiredSettings) },
      values : Configurations ]

(* the statuses a refresh may deliver; the battery level is always reported *)
Statuses ==
    { s \in [StatusKeys -> StatusValues] : s["battery"] = Num(1) }

(* the last time at which the exploration lets a sleep end *)
Horizon(interval, threshold) == MaxPeriods * (threshold + interval) + interval

DeviceName == "device"

(* time.time() values: unset is <<>>, set is <<t>> *)
NoTime == <<>>

(* the gauge's child for the device label: absent, or a float *)
Hidden == [kind |-> "hidden", n |-> 0]

----------------------------------------------------------------------------
(* SmartThingsMetric *)

MetricName(payload_key) == "smartthings_" \o payload_key

(* Gauge(...) registers the name in the process-wide REGISTRY, which main() *)
(* emptied; it raises ValueError on a malformed or an already used name     *)
GaugeRaises(mc, payload_key) ==
    \/ payload_key \notin WellFormedKeys
    \/ \E i \in 1..Len(mc) : mc[i].name = MetricName(payload_key)

NewMetric(payload_key) ==
    [ payload_key |-> payload_key,
      device_name |-> DeviceName,
      name |-> MetricName(payload_key),
      published |-> Hidden,
      value |-> NoneValue,
      last_update_time |-> NoTime ]

(* float(value) in Gauge.set: raises on None and on a non-numeric string *)
FloatRaises(value) == value.kind \in {"none", "str"}
Float(value) == [kind |-> "num", n |-> value.n]

(* python != between the stored value and the new one *)
Differs(old, value) == old # value

(* set() without the comparison of line 32: it publishes every value *)
MetricSetAlways(m, value, t) ==
    IF FloatRaises(value)
    THEN [m |-> m, raised |-> TRUE, published |-> TRUE]
    ELSE [m |-> [m EXCEPT !.published = Float(value),
                          !.value = value,
                          !.last_update_time = <<t>>],
          raised |-> FALSE, published |-> TRUE]

(* set() with line 35 outside the if: an unchanged value refreshes the time *)
MetricSetTouch(m, value, t) ==
    IF Differs(m.value, value)
    THEN IF FloatRaises(value)
         THEN [m |-> m, raised |-> TRUE, published |-> TRUE]
         ELSE [m |-> [m EXCEPT !.published = Float(value),
                               !.value = value,
                               !.last_update_time = <<t>>],
               raised |-> FALSE, published |-> TRUE]
    ELSE [m |-> [m EXCEPT !.last_update_time = <<t>>],
          raised |-> FALSE, published |-> FALSE]

(* set() with lines 34-35 before line 33: a value float() rejects is stored *)
MetricSetStoresRejected(m, value, t) ==
    IF Differs(m.value, value)
    THEN IF FloatRaises(value)
         THEN [m |-> [m EXCEPT !.value = value, !.last_update_time = <<t>>],
               raised |-> TRUE, published |-> TRUE]
         ELSE [m |-> [m EXCEPT !.published = Float(value),
                               !.value = value,
                               !.last_update_time = <<t>>],
               raised |-> FALSE, published |-> TRUE]
    ELSE [m |-> m, raised |-> FALSE, published |-> FALSE]

(* set() without line 34: the value published is not stored *)
MetricSetKeepsValue(m, value, t) ==
    IF Differs(m.value, value)
    THEN IF FloatRaises(value)
         THEN [m |-> m, raised |-> TRUE, published |-> TRUE]
         ELSE [m |-> [m EXCEPT !.published = Float(value),
                               !.last_update_time = <<t>>],
               raised |-> FALSE, published |-> TRUE]
    ELSE [m |-> m, raised |-> FALSE, published |-> FALSE]

(* SmartThingsMetric.set: [m: the handle after, raised, published: a call was made] *)
MetricSet(m, value, t) ==
    IF Differs(m.value, value)
    THEN IF FloatRaises(value)
         THEN [m |-> m, raised |-> TRUE, published |-> TRUE]
         ELSE [m |-> [m EXCEPT !.published = Float(value),
                               !.value = value,
                               !.last_update_time = <<t>>],
               raised |-> FALSE, published |-> TRUE]
    ELSE [m |-> m, raised |-> FALSE, published |-> FALSE]

(* clear() without line 40: the time of the last update stays *)
MetricClearKeepTime(m, t) ==
    [m EXCEPT !.published = Hidden]

(* clear() that also forgets the value *)
MetricClearResetsValue(m, t) ==
    [m EXCEPT !.published = Hidden, !.value = NoneValue, !.last_update_time = <<t>>]

(* SmartThingsMetric.clear *)
MetricClear(m, t) ==
    [m EXCEPT !.published = Hidden, !.last_update_time = <<t>>]

----------------------------------------------------------------------------
(* Records of the calls of a cycle *)

Call(op, key, got, arg) == [op |-> op, key |-> key, got |-> got, arg |-> arg]

----------------------------------------------------------------------------
(* Worker.get_metric_by_payload_key / create_new_metric *)

(* a lookup that does not compare the key: the first handle, if any *)
FindMetricAny(mc, payload_key) ==
    IF Len(mc) > 0 THEN 1 ELSE 0

(* index of the first handle with this payload_key, 0 if none *)
FindMetric(mc, payload_key) ==
    IF \E i \in 1..Len(mc) : mc[i].payload_key = payload_key
    THEN CHOOSE i \in 1..Len(mc) :
            /\ mc[i].payload_key = payload_key
            /\ \A j \in 1..(i - 1) : mc[j].payload_key # payload_key
    ELSE 0

(* create_new_metric: the constructor's ValueError is not a                *)
(* SmartThingsMetricException, so it leaves the method                      *)
CreateNewMetric(mc, payload_key) ==
    IF GaugeRaises(mc, payload_key)
    THEN [raised |-> TRUE, metric |-> NewMetric(payload_key)]
    ELSE [raised |-> FALSE, metric |-> NewMetric(payload_key)]

(* line 99 as an assignment of a new list instead of an append *)
GetMetricByPayloadKeyReplacing(mc, payload_key) ==
    LET found == FindMetric(mc, payload_key) IN
    IF found # 0
    THEN [mc |-> mc, idx |-> found, raised |-> FALSE,
          calls |-> {Call("resolve", payload_key, mc[found].payload_key, NoneValue)}]
    ELSE LET made == CreateNewMetric(mc, payload_key) IN
         IF made.raised
         THEN [mc |-> mc, idx |-> 0, raised |-> TRUE,
               calls |-> {Call("create_failed", payload_key, "", NoneValue)}]
         ELSE [mc |-> <<made.metric>>, idx |-> 1, raised |-> FALSE,
               calls |-> {Call("create", payload_key, "", NoneValue),
                          Call("resolve", payload_key, made.metric.payload_key, NoneValue)}]

(* [mc: the registry after, idx: index of the handle returned, raised, calls] *)
GetMetricByPayloadKey(mc, payload_key) ==
    LET found == FindMetric(mc, payload_key) IN
    IF found # 0
    THEN [mc |-> mc, idx |-> found, raised |-> FALSE,
          calls |-> {Call("resolve", payload_key, mc[found].payload_key, NoneValue)}]
    ELSE LET made == CreateNewMetric(mc, payload_key) IN
         IF made.raised
         THEN [mc |-> mc, idx |-> 0, raised |-> TRUE,
               calls |-> {Call("create_failed", payload_key, "", NoneValue)}]
         ELSE [mc |-> Append(mc, made.metric), idx |-> Len(mc) + 1, raised |-> FALSE,
               calls |-> {Call("create", payload_key, "", NoneValue),
                          Call("resolve", payload_key, made.metric.payload_key, NoneValue)}]

----------------------------------------------------------------------------
(* Worker.loop, lines 61-64: the for loop over device_metrics from index i; *)
(* an exception ends it                                                     *)

RECURSIVE ProcessStatus(_, _, _, _, _, _)
ProcessStatus(i, dm, mc, cl, status, t) ==
    IF i > Len(dm)
    THEN [mc |-> mc, calls |-> cl, raised |-> FALSE]
    ELSE LET key == dm[i]
             got == GetMetricByPayloadKey(mc, key)
             value == IF key \in DOMAIN status THEN status[key] ELSE NoneValue
         IN  IF got.raised
             THEN [mc |-> got.mc, calls |-> cl \cup got.calls, raised |-> TRUE]
             ELSE LET h == got.mc[got.idx]
                      res == MetricSet(h, value, t)
                      cl2 == cl \cup got.calls
                                \cup {Call("set", h.payload_key, "", value)}
                                \cup (IF res.published
                                      THEN {Call("publish", h.payload_key, "", value)}
                                      ELSE {})
                      mc2 == [got.mc EXCEPT ![got.idx] = res.m]
                  IN  IF res.raised
                      THEN [mc |-> mc2, calls |-> cl2, raised |-> TRUE]
                      ELSE ProcessStatus(i + 1, dm, mc2, cl2, status, t)

----------------------------------------------------------------------------
(* Worker.clear_expired_metrics *)

(* the comparison of line 78 with >= *)
ExpiredInclusive(t, last_update_time, threshold) ==
    t - last_update_time[1] >= threshold

Expired(t, last_update_time, threshold) ==
    t - last_update_time[1] > threshold

(* current_time - None raises TypeError *)
RECURSIVE ClearExpiredFrom(_, _, _, _, _)
ClearExpiredFrom(i, mc, cl, t, threshold) ==
    IF i > Len(mc)
    THEN [mc |-> mc, calls |-> cl, raised |-> FALSE]
    ELSE IF mc[i].last_update_time = NoTime
         THEN [mc |-> mc, calls |-> cl, raised |-> TRUE]
         ELSE IF Expired(t, mc[i].last_update_time, threshold)
              THEN ClearExpiredFrom(i + 1, [mc EXCEPT ![i] = MetricClear(mc[i], t)],
                        cl \cup {Call("clear", mc[i].payload_key, "",
                                      Num(t - mc[i].last_update_time[1]))},
                        t, threshold)
              ELSE ClearExpiredFrom(i + 1, mc, cl, t, threshold)

----------------------------------------------------------------------------
(* Observation of the calls, kept for the properties only *)

KeysCalled(cl, op) == { c.key : c \in { d \in cl : d.op = op } }
ArgOf(cl, op, key) == (CHOOSE c \in cl : c.op = op /\ c.key = key).arg

(* per key [differing: the last set() value that differed from the handle's  *)
(* value, accepted: the last such value that float() took]                   *)
RecordSets(ls, cl) ==
    LET pub == KeysCalled(cl, "publish")
        old(k) == IF k \in DOMAIN ls THEN ls[k].accepted ELSE NoneValue
    IN  [ k \in DOMAIN ls \cup pub |->
            IF k \in pub
            THEN LET v == ArgOf(cl, "publish", k)
                 IN  [differing |-> v,
                      accepted |-> IF v.kind \in {"num", "numstr"} THEN v ELSE old(k)]
            ELSE ls[k] ]

(* a publish that float() took ends the stale period of its key *)
ForgetClears(lc, cl) ==
    LET done == { c.key : c \in { d \in cl : d.op = "publish"
                                            /\ d.arg.kind \in {"num", "numstr"} } }
    IN  [ k \in DOMAIN lc \ done |-> lc[k] ]

(* the keys of a status that hold a value and are not configured *)
ReportedUnconfigured(status, dm) ==
    { Call("status", k, "", NoneValue) :
        k \in { j \in DOMAIN status :
                  /\ status[j] # NoneValue
                  /\ \A i \in 1..Len(dm) : dm[i] # j } }

RecordClears(lc, cl, t) ==
    LET cleared == KeysCalled(cl, "clear")
    IN  [ k \in DOMAIN lc \cup cleared |-> IF k \in cleared THEN t ELSE lc[k] ]

----------------------------------------------------------------------------
(* The state machine *)

(* the state at the call of main(): no Worker yet, its fields are blank *)
NoWorker ==
    /\ device_metrics = <<>>
    /\ collecting_interval_seconds = 0
    /\ expiration_threshold = 0
    /\ metrics_collector = <<>>
    /\ running = FALSE
    /\ pc = "idle"
    /\ now = 0
    /\ refreshed = "none"
    /\ calls = {}
    /\ last_set = <<>>
    /\ last_clear = <<>>
    /\ main_pc = "start"
    /\ exit_status = <<>>
    /\ worker = FALSE
    /\ server = FALSE
    /\ session = "none"

Init ==
    /\ environ \in Environments
    /\ NoWorker

(* load_env_variable without the test of line 110 *)
LoadEnvVariableReturns(present, name) == FALSE

(* load_env_variable(name) without a default: does it call sys.exit(1) *)
LoadEnvVariableExits(present, name) == name \notin present

(* lines 128-131: the required settings are loaded in this order *)
StartupExits(present) ==
    \E i \in 1..Len(RequiredSettings) : LoadEnvVariableExits(present, RequiredSettings[i])

(* main(), lines 116-141: the settings are loaded, the Worker is built, the *)
(* exposition server started and asyncio.run(metrics.loop()) entered        *)
Main ==
    /\ main_pc = "start"
    /\ IF StartupExits(environ.present)
       THEN /\ main_pc' = "exit"
            /\ exit_status' = <<1>>
            /\ UNCHANGED <<config, running, pc, worker, server>>
       ELSE /\ device_metrics' = environ.values.device_metrics
            /\ collecting_interval_seconds' = environ.values.collecting_interval_seconds
            /\ expiration_threshold' = environ.values.expiration_threshold
            /\ running' = TRUE
            /\ worker' = TRUE
            /\ server' = TRUE
            /\ main_pc' = "run"
            /\ pc' = "enter"
            /\ UNCHANGED exit_status
    /\ UNCHANGED <<metrics_collector, now, refreshed, calls, history, environ, session>>

(* lines 55-57: the session is opened and api.device(...) returns *)
LoopEnter ==
    /\ pc = "enter"
    /\ session' = "open"
    /\ pc' = "top"
    /\ UNCHANGED <<config, metrics_collector, running, now, refreshed, calls, history,
                   environ, main_pc, exit_status, worker, server>>

(* line 57 raises: the error leaves the async with, asyncio.run and main() *)
LoopEnterFail ==
    /\ pc = "enter"
    /\ session' = "closed"
    /\ pc' = "failed"
    /\ main_pc' = "exit"
    /\ exit_status' = <<1>>
    /\ UNCHANGED <<config, metrics_collector, running, now, refreshed, calls, history,
                   environ, worker, server>>

(* a loop that does not read the flag *)
LoopTopIgnoresFlag ==
    /\ pc = "top"
    /\ pc' = "refresh"
    /\ refreshed' = "none"
    /\ calls' = {}
    /\ UNCHANGED <<config, metrics_collector, running, now, history, process>>

(* a loop that ends without leaving the async with *)
LoopTopLeaksSession ==
    /\ pc = "top"
    /\ IF running
       THEN /\ pc' = "refresh"
            /\ refreshed' = "none"
            /\ calls' = {}
            /\ UNCHANGED <<main_pc, exit_status, session>>
       ELSE /\ pc' = "exited"
            /\ main_pc' = "exit"
            /\ exit_status' = <<0>>
            /\ UNCHANGED <<refreshed, calls, session>>
    /\ UNCHANGED <<config, metrics_collector, running, now, history,
                   environ, worker, server>>

(* line 58: while self.running; line 60 issues the refresh and awaits it.   *)
(* When the flag is cleared the loop ends, the async with releases the      *)
(* session, asyncio.run and main() return                                   *)
LoopTop ==
    /\ pc = "top"
    /\ IF running
       THEN /\ pc' = "refresh"
            /\ refreshed' = "none"
            /\ calls' = {}
            /\ UNCHANGED <<main_pc, exit_status, session>>
       ELSE /\ pc' = "exited"
            /\ session' = "closed"
            /\ main_pc' = "exit"
            /\ exit_status' = <<0>>
            /\ UNCHANGED <<refreshed, calls>>
    /\ UNCHANGED <<config, metrics_collector, running, now, history,
                   environ, worker, server>>

(* a loop over every key of the status instead of the configured ones *)
RefreshOkAllKeys ==
    /\ pc = "refresh"
    /\ \E status \in Statuses :
         LET res == ProcessStatus(1, <<"switch", "level", "battery">>, metrics_collector,
                                  {}, status, now)
         IN  /\ metrics_collector' = res.mc
             /\ calls' = res.calls \cup ReportedUnconfigured(status, device_metrics)
             /\ last_set' = RecordSets(last_set, res.calls)
             /\ last_clear' = ForgetClears(last_clear, res.calls)
    /\ refreshed' = "ok"
    /\ pc' = "sweep"
    /\ UNCHANGED <<config, running, now, process>>

(* lines 60-64: the refresh returns a status and the fields are processed;  *)
(* lines 66-67 catch whatever is raised                                     *)
RefreshOk ==
    /\ pc = "refresh"
    /\ \E status \in Statuses :
         LET res == ProcessStatus(1, device_metrics, metrics_collector, {}, status, now)
         IN  /\ metrics_collector' = res.mc
             /\ calls' = res.calls \cup ReportedUnconfigured(status, device_metrics)
             /\ last_set' = RecordSets(last_set, res.calls)
             /\ last_clear' = ForgetClears(last_clear, res.calls)
    /\ refreshed' = "ok"
    /\ pc' = "sweep"
    /\ UNCHANGED <<config, running, now, process>>

(* a failed refresh that goes straight to the sleep *)
RefreshFailSkipsSweep ==
    /\ pc = "refresh"
    /\ refreshed' = "failed"
    /\ pc' = "sleep"
    /\ UNCHANGED <<config, metrics_collector, running, now, calls, history, process>>

(* line 60 raises; lines 66-67 *)
RefreshFail ==
    /\ pc = "refresh"
    /\ refreshed' = "failed"
    /\ pc' = "sweep"
    /\ UNCHANGED <<config, metrics_collector, running, now, calls, history, process>>

(* line 68; an error raised here is outside the try: it leaves the loop,    *)
(* the async with releases the session, and main() ends with a traceback    *)
ClearExpiredMetrics ==
    /\ pc = "sweep"
    /\ LET res == ClearExpiredFrom(1, metrics_collector, calls, now, expiration_threshold)
       IN  /\ metrics_collector' = res.mc
           /\ calls' = res.calls
           /\ last_clear' = RecordClears(last_clear, res.calls, now)
           /\ IF res.raised
              THEN /\ pc' = "crashed"
                   /\ session' = "closed"
                   /\ main_pc' = "exit"
                   /\ exit_status' = <<1>>
              ELSE /\ pc' = "sleep"
                   /\ UNCHANGED <<main_pc, exit_status, session>>
    /\ UNCHANGED <<config, running, now, refreshed, last_set, environ, worker, server>>

(* a sleep that returns at once *)
SleepReturnsAtOnce ==
    /\ pc = "sleep"
    /\ pc' = "top"
    /\ UNCHANGED <<config, metrics_collector, running, now, refreshed, calls, history,
                   process>>

(* line 69; the exploration ends a running loop at the horizon *)
Sleep ==
    /\ pc = "sleep"
    /\ \/ ~running
       \/ now + collecting_interval_seconds
             <= Horizon(collecting_interval_seconds, expiration_threshold)
    /\ now' = now + collecting_interval_seconds
    /\ pc' = "top"
    /\ UNCHANGED <<config, metrics_collector, running, refreshed, calls, history, process>>

(* Worker.stop, called on the Worker while its loop runs *)
Stop ==
    /\ main_pc = "run"
    /\ running
    /\ running' = FALSE
    /\ UNCHANGED <<config, metrics_collector, pc, now, refreshed, calls, history, process>>

(* SIGTERM while asyncio.run runs: signal_handler, lines 103-105, raises     *)
(* SystemExit(0); it ends the coroutine, the async with releases the        *)
(* session, the process exits                                               *)
SignalHandler ==
    /\ main_pc = "run"
    /\ pc' = "cancelled"
    /\ session' = IF session = "open" THEN "closed" ELSE session
    /\ main_pc' = "exit"
    /\ exit_status' = <<0>>
    /\ UNCHANGED <<config, metrics_collector, running, now, refreshed, calls, history,
                   environ, worker, server>>

(* KeyboardInterrupt while asyncio.run runs: it ends the coroutine, then    *)
(* lines 142-145: metrics.stop() and sys.exit(0)                            *)
KeyboardInterrupt ==
    /\ main_pc = "run"
    /\ pc' = "cancelled"
    /\ session' = IF session = "open" THEN "closed" ELSE session
    /\ running' = FALSE
    /\ main_pc' = "exit"
    /\ exit_status' = <<0>>
    /\ UNCHANGED <<config, metrics_collector, now, refreshed, calls, history,
                   environ, worker, server>>

Next ==
    \/ Main
    \/ LoopEnter
    \/ LoopEnterFail
    \/ SignalHandler
    \/ KeyboardInterrupt
    \/ LoopTop
    \/ RefreshOk
    \/ RefreshFail
    \/ ClearExpiredMetrics
    \/ Sleep
    \/ Stop

Spec == Init /\ [][Next]_vars

(* The event loop runs the coroutine whenever it can go on: an awaited call  *)
(* returns or raises, a sleep ends, and the code between two awaits runs.    *)
LiveInit ==
    /\ environ \in { e \in Environments : Len(e.values.device_metrics) = 3 }
    /\ NoWorker

LiveSpec ==
    /\ LiveInit
    /\ [][Next]_vars
    /\ WF_vars(LoopEnter \/ LoopEnterFail)
    /\ WF_vars(LoopTop)
    /\ WF_vars(RefreshOk \/ RefreshFail)
    /\ WF_vars(ClearExpiredMetrics)
    /\ WF_vars(Sleep)

TypeOK ==
    /\ worker => Configuration(device_metrics, collecting_interval_seconds,
                               expiration_threshold) \in Configurations
    /\ running \in BOOLEAN
    /\ pc \in {"idle", "enter", "failed", "top", "refresh", "sweep", "sleep",
                "exited", "crashed", "cancelled"}
    /\ now \in 0..(Horizon(collecting_interval_seconds, expiration_threshold)
                     + collecting_interval_seconds)
    /\ refreshed \in {"none", "ok", "failed"}
    /\ environ \in Environments
    /\ main_pc \in {"start", "run", "exit"}
    /\ exit_status \in {<<>>, <<0>>, <<1>>}
    /\ worker \in BOOLEAN
    /\ server \in BOOLEAN
    /\ session \in {"none", "open", "closed"}

----------------------------------------------------------------------------
(* Vocabulary of the properties *)

Handles(mc) == { mc[i] : i \in 1..Len(mc) }

HasHandle(mc, key) == \E h \in Handles(mc) : h.payload_key = key

(* the value the handle of a key holds; None when the key has no handle yet *)
ValueBefore(mc, key) ==
    IF HasHandle(mc, key)
    THEN (CHOOSE h \in Handles(mc) : h.payload_key = key).value
    ELSE NoneValue

Called(op, key) == \E c \in calls : c.op = op /\ c.key = key

(* the step of lines 60-64 after a refresh that succeeded *)
UpdateStep == pc = "refresh" /\ pc' = "sweep" /\ refreshed' = "ok"

(* the step of line 60 raising *)
FailedRefreshStep == pc = "refresh" /\ refreshed' = "failed"

(* the step of line 68 *)
SweepStep == pc = "sweep" /\ pc' \in {"sleep", "crashed"}

(* the handle is hidden by a clear() that no publish has followed *)
Stale(h) == h.published = Hidden /\ h.value # NoneValue

----------------------------------------------------------------------------
(* C1: no error escapes Worker.loop: every cycle, its expiration sweep     *)
(* included, reaches its sleep.                                            *)
C1_NoErrorEscapesLoop == pc # "crashed"

(* C2: a sweep over a registry holding a handle whose last_update_time is  *)
(* unset completes normally and leaves that handle as it was.              *)
C2_UnsetHandleSkippedBySweep ==
    [][ (SweepStep /\ \E h \in Handles(metrics_collector) : h.last_update_time = NoTime)
        => /\ pc' = "sleep"
           /\ \A i \in 1..Len(metrics_collector) :
                 metrics_collector[i].last_update_time = NoTime
                 => metrics_collector'[i] = metrics_collector[i] ]_vars

C4_UnchangedValueExpires ==
    /\ [][ UpdateStep =>
            \A i \in 1..Len(metrics_collector) :
               LET h == metrics_collector[i] IN
               (\E c \in calls' : c.op = "set" /\ c.key = h.payload_key /\ c.arg = h.value)
               => metrics_collector'[i].last_update_time = h.last_update_time ]_vars
    /\ [][ SweepStep =>
            \A i \in 1..Len(metrics_collector) :
               LET h == metrics_collector[i] IN
               ( /\ refreshed = "ok"
                 /\ \E c \in calls : c.op = "set" /\ c.key = h.payload_key /\ c.arg = h.value
                 /\ h.last_update_time # NoTime
                 /\ now - h.last_update_time[1] > expiration_threshold )
               => /\ metrics_collector'[i].published = Hidden
                  /\ metrics_collector'[i].value = h.value
                  /\ \E c \in calls' : c.op = "clear" /\ c.key = h.payload_key ]_vars

(* the value 1 is reported in the very cycle whose sweep hid it *)
C4_Witness ==
    /\ pc = "sleep"
    /\ refreshed = "ok"
    /\ expiration_threshold = DefaultExpirationThreshold
    /\ \E h \in Handles(metrics_collector) :
          /\ h.value = Num(1)
          /\ h.published = Hidden
          /\ h.last_update_time = <<now>>
          /\ Call("set", h.payload_key, "", Num(1)) \in calls
          /\ Called("clear", h.payload_key)
          /\ ~Called("publish", h.payload_key)

(* C5: a sweep clears a handle whose last_update_time is set if and only   *)
(* if now - last_update_time is strictly greater than the threshold: with  *)
(* threshold 300, not at 270 nor at 300 elapsed, and at 330.               *)
C5_ClearedIffStrictlyOlder ==
    [][ SweepStep =>
          \A i \in 1..Len(metrics_collector) :
             LET h == metrics_collector[i]
                 elapsed == now - h.last_update_time[1]
                 cleared == \E c \in calls' : c.op = "clear" /\ c.key = h.payload_key
             IN  h.last_update_time # NoTime
                 => /\ cleared <=> (elapsed > expiration_threshold)
                    /\ cleared => metrics_collector'[i] =
                                    [h EXCEPT !.published = Hidden,
                                              !.last_update_time = <<now>>]
                    /\ ~cleared => metrics_collector'[i] = h
                    /\ (expiration_threshold = 300 /\ elapsed \in {270, 300}) => ~cleared
                    /\ (expiration_threshold = 300 /\ elapsed = 330) => cleared ]_vars

(* a sweep at exactly 300 s elapsed has left the gauge visible *)
C5_Witness ==
    /\ pc = "sleep"
    /\ expiration_threshold = 300
    /\ \E h \in Handles(metrics_collector) :
          /\ h.last_update_time # NoTime
          /\ now - h.last_update_time[1] = 300
          /\ h.published # Hidden

(* C6 as stated: once a sweep has cleared a handle, no later sweep calls   *)
(* clear() on it until a set() publishes a new value.                      *)
C6_ClearedOncePerStalePeriod ==
    [][ SweepStep =>
          \A k \in DOMAIN last_clear :
             ~(\E c \in calls' : c.op = "clear" /\ c.key = k) ]_vars

(* C6 as amended: once a sweep has cleared a handle, a later sweep calls   *)
(* clear() on it again exactly when more than the threshold has elapsed    *)
(* since the previous clear(), and the gauge stays hidden throughout.      *)
C6_ClearedOncePerThreshold ==
    [][ SweepStep =>
          \A k \in DOMAIN last_clear :
             /\ (\E c \in calls' : c.op = "clear" /\ c.key = k)
                <=> (now - last_clear[k] > expiration_threshold)
             /\ \A h \in Handles(metrics_collector') :
                   h.payload_key = k => h.published = Hidden ]_vars

(* a handle is cleared a second time in the same stale period *)
C6_Witness ==
    /\ pc = "sleep"
    /\ \E h \in Handles(metrics_collector) :
          /\ Stale(h)
          /\ Called("clear", h.payload_key)
          /\ h.payload_key \in DOMAIN last_clear
          /\ last_clear[h.payload_key] = now
          /\ h.payload_key \in DOMAIN last_set
          /\ now > 2 * expiration_threshold

(* C7: the registry holds at most one handle per field key; resolving a    *)
(* key returns a handle of that key, the existing one when there is one    *)
(* (nothing is added), a new one otherwise.                                *)
C7_OneHandlePerKey ==
    /\ [](\A i, j \in 1..Len(metrics_collector) :
            metrics_collector[i].payload_key = metrics_collector[j].payload_key
            => i = j)
    /\ [][ UpdateStep =>
            /\ \A c \in calls' : c.op = "resolve" => c.got = c.key
            /\ \A c \in calls' :
                  (c.op = "resolve" /\ HasHandle(metrics_collector, c.key))
                  => ~(\E d \in calls' : d.op \in {"create", "create_failed"}
                                          /\ d.key = c.key)
            /\ Len(metrics_collector') =
                  Len(metrics_collector)
                  + Cardinality({c \in calls' : c.op = "create"})
            /\ \A i \in 1..Len(metrics_collector) :
                  metrics_collector'[i].payload_key = metrics_collector[i].payload_key
          ]_vars

(* both keys were resolved again in a later cycle, and there are two handles *)
C7_Witness ==
    /\ pc = "sweep"
    /\ now > 0
    /\ Len(metrics_collector) = 2
    /\ Called("resolve", "switch")
    /\ Called("resolve", "level")
    /\ ~Called("create", "switch")
    /\ ~Called("create", "level")

(* C8: a cycle whose refresh fails creates no handle, changes no handle     *)
(* and makes no call in its update phase, and its sweep runs all the same:  *)
(* it clears what has expired.                                              *)
C8_FailedRefreshStillSweeps ==
    /\ [][ FailedRefreshStep =>
            /\ metrics_collector' = metrics_collector
            /\ calls' = {}
            /\ pc' = "sweep" ]_vars
    /\ [][ (SweepStep /\ refreshed = "failed") =>
            /\ pc' = "sleep"
            /\ Len(metrics_collector') = Len(metrics_collector)
            /\ \A i \in 1..Len(metrics_collector) :
                  LET h == metrics_collector[i] IN
                  IF /\ h.last_update_time # NoTime
                     /\ now - h.last_update_time[1] > expiration_threshold
                  THEN metrics_collector'[i].published = Hidden
                       /\ metrics_collector'[i].last_update_time = <<now>>
                  ELSE metrics_collector'[i] = h ]_vars

(* the sweep of a cycle whose refresh failed has cleared a handle *)
C8_Witness ==
    /\ pc = "sleep"
    /\ refreshed = "failed"
    /\ \E h \in Handles(metrics_collector) :
          /\ Called("clear", h.payload_key)
          /\ h.published = Hidden
          /\ h.value # NoneValue

(* C9: when the construction of the handle of a key fails, no entry is     *)
(* registered for the key and the other configured keys are processed in   *)
(* that cycle all the same.                                                *)
C9_OnlyFailedFieldSkipped ==
    \A c \in calls :
       (pc = "sweep" /\ c.op = "create_failed")
       => /\ ~HasHandle(metrics_collector, c.key)
          /\ \A i \in 1..Len(device_metrics) :
                device_metrics[i] # c.key => Called("resolve", device_metrics[i])

(* C10: once the running flag is cleared no refresh is issued; the stop    *)
(* changes nothing else, so the cycle in flight goes on in order (refresh, *)
(* update, sweep, sleep), and the loop leaves at the top of the next       *)
(* iteration; only the sweep's own error ends it earlier.                  *)
C10_NoNewCycleAfterStop ==
    /\ [][ ~running => ~(pc # "refresh" /\ pc' = "refresh") ]_vars
    /\ [][ (running /\ ~running' /\ main_pc' = "run") =>
              UNCHANGED <<config, metrics_collector, pc, now, refreshed, calls>> ]_vars
    /\ [][ (worker /\ ~running /\ pc' # pc /\ main_pc' = "run") =>
              <<pc, pc'>> \in { <<"enter", "top">>,
                                <<"refresh", "sweep">>, <<"sweep", "sleep">>,
                                <<"sleep", "top">> } ]_vars
    /\ [][ (worker /\ ~running /\ main_pc = "run" /\ main_pc' = "exit") =>
              pc' \in {"exited", "crashed", "failed", "cancelled"} ]_vars
    /\ [][ pc' = "exited" => (pc = "exited" \/ (pc = "top" /\ ~running)) ]_vars

(* stopped during a cycle that ran on to its sleep, the loop has left *)
C10_Witness ==
    /\ pc = "exited"
    /\ ~running
    /\ refreshed = "ok"
    /\ now > 0
    /\ metrics_collector # <<>>

(* the configured field keys *)
Configured == { device_metrics[i] : i \in 1..Len(device_metrics) }

(* the required settings, as main() names them *)
AllRequired == {"DEVICE_ID", "DEVICE_METRICS", "SMARTTHINGS_TOKEN"}

(* C11: when a termination request (SIGTERM, keyboard interrupt) has ended  *)
(* the process, the Worker's running flag has been cleared and the exit     *)
(* status is 0.                                                            *)
C11_StoppedBeforeExit ==
    pc = "cancelled" => (~running /\ exit_status = <<0>>)

(* C12: every handle of the registry, and every resolution, creation, set, *)
(* publish and clear call, is for a configured field key.                  *)
C12_OnlyConfiguredKeys ==
    /\ \A h \in Handles(metrics_collector) : h.payload_key \in Configured
    /\ \A c \in calls : c.op # "status" => c.key \in Configured
    /\ DOMAIN last_set \subseteq Configured
    /\ DOMAIN last_clear \subseteq Configured

(* a status held a value for a key that is not configured; the configured  *)
(* key has its handle, that key has none                                   *)
C12_Witness ==
    /\ pc = "sleep"
    /\ metrics_collector # <<>>
    /\ \E c \in calls :
          /\ c.op = "status"
          /\ c.key \notin Configured
          /\ ~HasHandle(metrics_collector, c.key)

(* C13: when a required setting is missing, main() ends with status 1,     *)
(* with no Worker built, no exposition server started, no session opened   *)
(* and no refresh issued.                                                  *)
C13_MissingSettingIsFatal ==
    (main_pc # "start" /\ environ.present # AllRequired)
    => /\ main_pc = "exit"
       /\ exit_status = <<1>>
       /\ ~worker
       /\ ~server
       /\ session = "none"
       /\ pc = "idle"
       /\ refreshed = "none"
       /\ metrics_collector = <<>>

C13_Witness ==
    /\ main_pc = "exit"
    /\ environ.present = {"DEVICE_ID", "SMARTTHINGS_TOKEN"}
    /\ exit_status = <<1>>

(* the update phase of this cycle raised part-way *)
UpdateRaised ==
    \E c \in calls :
       \/ c.op = "create_failed"
       \/ c.op = "publish" /\ c.arg.kind \in {"none", "str"}

ClearCalls(cl) == { c \in cl : c.op = "clear" }

(* C14: the loop goes refresh, update, sweep, sleep, in that order and one *)
(* at a time; a refresh is issued only from the top of an iteration, which *)
(* is reached only when the sleep of the previous cycle has lasted the     *)
(* whole interval; the update phase, whatever its outcome, is followed by  *)
(* the sweep, and clear() is called in the sweep only.                     *)
C14_CyclesAreSequential ==
    /\ [][ (pc' # pc /\ main_pc = "run" /\ main_pc' = "run") =>
              <<pc, pc'>> \in { <<"enter", "top">>, <<"top", "refresh">>,
                                <<"refresh", "sweep">>, <<"sweep", "sleep">>,
                                <<"sleep", "top">> } ]_vars
    /\ [][ (pc = "sleep" /\ pc' = "top") =>
              now' = now + collecting_interval_seconds ]_vars
    /\ [][ now' # now => (pc = "sleep" /\ pc' = "top") ]_vars
    /\ [][ (pc = "refresh" /\ pc' \notin {"refresh", "cancelled"}) =>
              (pc' = "sweep" /\ ClearCalls(calls') = {}) ]_vars
    /\ [][ ClearCalls(calls') \ ClearCalls(calls) # {} => SweepStep ]_vars

(* in a later cycle the update phase raised part-way and the sweep has run *)
C14_Witness ==
    /\ pc = "sleep"
    /\ now > 0
    /\ refreshed = "ok"
    /\ UpdateRaised
    /\ ClearCalls(calls) # {}

(* C15: the running flag of a Worker never goes from cleared to set; the   *)
(* session is opened once, at the entry of the loop, and never reopened;   *)
(* the loop leaves with the session released; and once the flag is cleared *)
(* the loop ends, with no session left open.                               *)
C15_StopLeadsToRelease ==
    /\ [][ (worker /\ ~running) => ~running' ]_vars
    /\ [][ (session' = "open" /\ session # "open") =>
              (session = "none" /\ pc = "enter") ]_vars
    /\ [][ session = "closed" => session' = "closed" ]_vars
    /\ [][ (pc' = "exited" /\ pc # "exited") =>
              (session = "open" /\ session' = "closed") ]_vars
    /\ ((worker /\ ~running)
          ~> (pc \in {"exited", "crashed", "failed", "cancelled"} /\ session # "open"))

(* stopped in a cycle, the loop has left and released its session *)
C15_Witness ==
    /\ pc = "exited"
    /\ ~running
    /\ session = "closed"
    /\ now > 0

(* C16: a handle of the registry stays at its place in every later state,  *)
(* with its payload_key, device_name and name.                             *)
C16_RegistryOnlyGrows ==
    [][ \A i \in 1..Len(metrics_collector) :
           /\ i <= Len(metrics_collector')
           /\ metrics_collector'[i].payload_key = metrics_collector[i].payload_key
           /\ metrics_collector'[i].device_name = metrics_collector[i].device_name
           /\ metrics_collector'[i].name = metrics_collector[i].name ]_vars

(* a cleared handle is in the registry, next to one created after it *)
C16_Witness ==
    /\ Len(metrics_collector) = 2
    /\ Stale(metrics_collector[1])
    /\ metrics_collector[2].published # Hidden
    /\ metrics_collector[1].name = "smartthings_switch"

(* C17: clear() hides the gauge, sets last_update_time to now and leaves   *)
(* the value; a later set() of that value publishes nothing and changes    *)
(* nothing, and the gauge shows a value again only by a publish of a       *)
(* different one.                                                          *)
C17_ClearKeepsValue ==
    /\ [][ SweepStep =>
            \A i \in 1..Len(metrics_collector) :
               LET h == metrics_collector[i] IN
               (\E c \in calls' : c.op = "clear" /\ c.key = h.payload_key)
               => /\ metrics_collector'[i].published = Hidden
                  /\ metrics_collector'[i].last_update_time = <<now>>
                  /\ metrics_collector'[i].value = h.value ]_vars
    /\ [][ UpdateStep =>
            \A i \in 1..Len(metrics_collector) :
               LET h == metrics_collector[i] IN
               Stale(h)
               => /\ Call("set", h.payload_key, "", h.value) \in calls'
                     => /\ metrics_collector'[i] = h
                        /\ ~(\E c \in calls' : c.op = "publish" /\ c.key = h.payload_key)
                  /\ metrics_collector'[i].published # Hidden
                     => \E c \in calls' : /\ c.op = "publish"
                                          /\ c.key = h.payload_key
                                          /\ c.arg # h.value ]_vars

(* a cleared handle was set to the value it holds, in a later cycle, and   *)
(* is still hidden                                                         *)
C17_Witness ==
    /\ pc = "sleep"
    /\ \E h \in Handles(metrics_collector) :
          /\ Stale(h)
          /\ Call("set", h.payload_key, "", h.value) \in calls
          /\ ~Called("publish", h.payload_key)
          /\ ~Called("clear", h.payload_key)

====
